---------------------------- MODULE Spec2Model ----------------------------
(***************************************************************************)
(* The memorial worker (worker/src/index.ts): the fetch handler's routes   *)
(* over the record store (MEMORIALS_KV) and the object store (the R2       *)
(* bucket), as a state machine.  A request is handled by a process; a      *)
(* handler is cut at the awaits that touch a store (KV get, S3             *)
(* DeleteObjects, KV put/delete), so that requests interleave exactly      *)
(* where the code can be suspended.                                        *)
(***************************************************************************)
EXTENDS Integers, Sequences, FiniteSets, TLC

VARIABLES
  env,    \* the worker's configuration: is R2_BUCKET_NAME set
  kv,     \* MEMORIALS_KV: slug -> stored JSON text, or KvNull
  blobs,  \* the object keys that exist in the R2 bucket
  pc,     \* per request process: where its handler is suspended
  req,    \* per process: method, slug and X-Edit-Key of the request being handled
  loc,    \* per process: the handler's local variables that live across an await
  s3,     \* per process: the DeleteObjects command the handler has sent, if any
  resp    \* per process: the Response returned for its last request

vars == <<env, kv, blobs, pc, req, loc, s3, resp>>

-----------------------------------------------------------------------------
(* Bounds of the model *)

\* longest images list a request body or a record carries
MaxImages == 3
\* longest slugs list a batch request carries
MaxSlugs == 2

-----------------------------------------------------------------------------
(* Values *)

Procs == {1, 2}

AllSlugs == {"milo-1", "rex-2"}
EditKeys == {"k1", "k2"}

\* A slug with a character that a URL path holds percent-encoded, and the
\* slug segment of url.pathname for a request on /api/memorial/<slug>: the
\* handler takes path.substring(..) as it is, without decoding it.
SpacedSlug == "my pet"
PathSlug(slug) == IF slug = SpacedSlug THEN "my%20pet" ELSE slug

\* the keys of MEMORIALS_KV that the requests of the model can name
KvKeys == AllSlugs \cup {SpacedSlug, PathSlug(SpacedSlug)}

\* JSON null, and a request body that request.json() rejects
Null == [null |-> TRUE]
\* A JSON array, held as [list |-> <<..>>] so that null can stand in its place
Arr(seq) == [list |-> seq]
Malformed == [malformed |-> TRUE]

\* KVNamespace.get answers null for a key that holds nothing
KvNull == [kvnull |-> TRUE]

\* An object key of the bucket is "<id>.<ext>"
ObjKey(id, ext) == [id |-> id, ext |-> ext]
EmptyKey == ObjKey("", "")

\* A URL string "https://<host>/<path>", held by its parts; a string with
\* no scheme is one that new URL() rejects.
PublicHost == "cdn.example"
Url(path) == [scheme |-> "https", host |-> PublicHost, path |-> path]
BadUrl == [scheme |-> "", host |-> "", path |-> ObjKey("not a url", "")]
RootUrl == Url(EmptyKey)

KeyA == ObjKey("a", "jpg")
KeyB == ObjKey("b", "jpg")
KeyC == ObjKey("c", "jpg")
KeyV == ObjKey("avatar", "jpg")
UrlA == Url(KeyA)
UrlB == Url(KeyB)
UrlC == Url(KeyC)
UrlV == Url(KeyV)

-----------------------------------------------------------------------------
(* JavaScript helpers *)

Has(obj, f) == f \in DOMAIN obj

\* !obj.f for a string field: undefined or ""
FalsyStr(obj, f) == IF Has(obj, f) THEN obj[f] = "" ELSE TRUE

\* The fields that hold text; the requests of the model send null only for
\* images and avatar, so a text field that is present holds a string.
TextFields == {"slug", "petName", "shortMessage", "memorialContent", "createdAt", "editKey"}

\* obj.f is undefined or null (the left side of ?? and of || [] on a list)
Nullish(obj, f) ==
  IF Has(obj, f) THEN (IF f \in TextFields THEN FALSE ELSE obj[f] = Null) ELSE TRUE

\* delete obj.f
Without(obj, f) == [g \in DOMAIN obj \ {f} |-> obj[g]]

\* JSON.stringify / JSON.parse of a stored record
Stringify(obj) == [json |-> obj]
Parse(text) == text.json

Range(seq) == {seq[i] : i \in DOMAIN seq}


\* env.MEMORIALS_KV.get(key)
KvGet(key) == IF key \in DOMAIN kv THEN kv[key] ELSE KvNull

-----------------------------------------------------------------------------
(* Responses *)

NoResp == [status |-> 0]
JsonResp(status, obj) == [status |-> status, cors |-> TRUE, json |-> obj]
EmptyResp(status) == [status |-> status, cors |-> TRUE]
\* new Response("Not Found", { status: 404 }) carries no headers
PlainResp(status, text, cors) == [status |-> status, cors |-> cors, text |-> text]

\* { error: `<text> ${args}` }
Err(text, args) == [error |-> [text |-> text, args |-> args]]

-----------------------------------------------------------------------------
(* Process state *)

NoReq == [method |-> "", slug |-> "", key |-> ""]
NoLoc == [none |-> TRUE]
NoCmd == [sent |-> FALSE]

\* the handler returns r
Reply(p, r) ==
  /\ resp' = [resp EXCEPT ![p] = r]
  /\ pc' = [pc EXCEPT ![p] = "idle"]
  /\ loc' = [loc EXCEPT ![p] = NoLoc]

\* the handler is suspended at the await named label, holding locals l
Suspend(p, label, l) ==
  /\ resp' = [resp EXCEPT ![p] = NoResp]
  /\ pc' = [pc EXCEPT ![p] = label]
  /\ loc' = [loc EXCEPT ![p] = l]

\* a request arrives at an idle process: nothing has been sent to R2 for it
Arrive(p, method, slug, key) ==
  /\ pc[p] = "idle"
  /\ req' = [req EXCEPT ![p] = [method |-> method, slug |-> slug, key |-> key]]
  /\ s3' = [s3 EXCEPT ![p] = NoCmd]

Init ==
  /\ env \in [bucket : BOOLEAN]
  /\ kv = [s \in KvKeys |-> KvNull]
  /\ blobs = {}
  /\ pc = [p \in Procs |-> "idle"]
  /\ req = [p \in Procs |-> NoReq]
  /\ loc = [p \in Procs |-> NoLoc]
  /\ s3 = [p \in Procs |-> NoCmd]
  /\ resp = [p \in Procs |-> NoResp]

-----------------------------------------------------------------------------
(* POST /api/memorial *)

\* CreateStart without the lookup of the slug: the record is overwritten
CreateStartOverwrites(p, body) ==
  /\ Arrive(p, "POST /api/memorial", IF body # Malformed /\ Has(body, "slug") THEN body.slug ELSE "", "")
  /\ UNCHANGED <<env, kv, blobs>>
  /\ IF body = Malformed
     THEN Reply(p, JsonResp(400, Err("Bad Request or Internal Error", <<>>)))
     ELSE IF FalsyStr(body, "slug") \/ FalsyStr(body, "petName") \/ FalsyStr(body, "editKey")
     THEN Reply(p, JsonResp(400, Err("Slug, Pet Name, and Edit Key are required.", <<>>)))
     ELSE Suspend(p, "create_put", [newMemorial |-> body])

\* CreateStart that requires the slug alone: petName and editKey may be missing
CreateStartSlugOnly(p, body) ==
  /\ Arrive(p, "POST /api/memorial", IF body # Malformed /\ Has(body, "slug") THEN body.slug ELSE "", "")
  /\ UNCHANGED <<env, kv, blobs>>
  /\ IF body = Malformed
     THEN Reply(p, JsonResp(400, Err("Bad Request or Internal Error", <<>>)))
     ELSE IF FalsyStr(body, "slug")
     THEN Reply(p, JsonResp(400, Err("Slug, Pet Name, and Edit Key are required.", <<>>)))
     ELSE IF KvGet(body.slug) # KvNull
     THEN Reply(p, JsonResp(409, Err("Slug already exists.", <<body.slug>>)))
     ELSE Suspend(p, "create_put", [newMemorial |-> body])

\* Up to the await of MEMORIALS_KV.get: parse, validate, look the slug up.
CreateStart(p, body) ==
  /\ Arrive(p, "POST /api/memorial", IF body # Malformed /\ Has(body, "slug") THEN body.slug ELSE "", "")
  /\ UNCHANGED <<env, kv, blobs>>
  /\ IF body = Malformed
     THEN Reply(p, JsonResp(400, Err("Bad Request or Internal Error", <<>>)))
     ELSE IF FalsyStr(body, "slug") \/ FalsyStr(body, "petName") \/ FalsyStr(body, "editKey")
     THEN Reply(p, JsonResp(400, Err("Slug, Pet Name, and Edit Key are required.", <<>>)))
     ELSE IF KvGet(body.slug) # KvNull
     THEN Reply(p, JsonResp(409, Err("Slug already exists.", <<body.slug>>)))
     ELSE Suspend(p, "create_put", [newMemorial |-> body])

\* await MEMORIALS_KV.put(slug, JSON.stringify(newMemorial)), then 201
CreatePut(p) ==
  /\ pc[p] = "create_put"
  /\ kv' = [kv EXCEPT ![loc[p].newMemorial.slug] = Stringify(loc[p].newMemorial)]
  /\ Reply(p, JsonResp(201, [success |-> TRUE, slug |-> loc[p].newMemorial.slug]))
  /\ UNCHANGED <<env, blobs, req, s3>>

-----------------------------------------------------------------------------
(* GET /api/memorial/:slug *)

\* Read without the delete of editKey: the stored record is returned whole
ReadLeaks(p, slug) ==
  /\ slug # ""
  /\ Arrive(p, "GET /api/memorial/:slug", slug, "")
  /\ UNCHANGED <<env, kv, blobs>>
  /\ IF KvGet(slug) = KvNull
     THEN Reply(p, JsonResp(404, Err("Memorial not found", <<>>)))
     ELSE Reply(p, JsonResp(200, Parse(KvGet(slug))))

Read(p, slug) ==
  /\ slug # ""
  /\ Arrive(p, "GET /api/memorial/:slug", slug, "")
  /\ UNCHANGED <<env, kv, blobs>>
  /\ IF KvGet(slug) = KvNull
     THEN Reply(p, JsonResp(404, Err("Memorial not found", <<>>)))
     ELSE Reply(p, JsonResp(200, Without(Parse(KvGet(slug)), "editKey")))

\* any method on /api/memorial/ with nothing after the slash
EmptySlug(p) ==
  /\ Arrive(p, "/api/memorial/", "", "")
  /\ UNCHANGED <<env, kv, blobs>>
  /\ Reply(p, PlainResp(404, "Not Found", FALSE))

-----------------------------------------------------------------------------
(* Image URLs and object keys *)

\* new URL(imageUrl) does not throw
UrlParses(imageUrl) == imageUrl.scheme # ""

\* new URL(imageUrl).pathname.substring(1)
UrlKey(imageUrl) == imageUrl.path

\* storedMemorial.images || []
OriginalImageUrls(storedMemorial) ==
  IF Nullish(storedMemorial, "images") THEN <<>> ELSE storedMemorial.images.list

\* new Set(updateData.images || [])
NewImageUrls(updateData) ==
  IF Nullish(updateData, "images") THEN {} ELSE Range(updateData.images.list)

\* ImagesToDelete without the filter: every stored image is to be deleted
ImagesToDeleteAll(storedMemorial, updateData) ==
  OriginalImageUrls(storedMemorial)

\* originalImageUrls.filter(url => !newImageUrls.has(url))
ImagesToDelete(storedMemorial, updateData) ==
  SelectSeq(OriginalImageUrls(storedMemorial),
            LAMBDA url : url \notin NewImageUrls(updateData))

\* urls.map(url => { try { Key } catch { null } }).filter(obj !== null && Key !== '')
ObjectKeys(urls) ==
  LET kept == SelectSeq(urls, LAMBDA url : UrlParses(url) /\ UrlKey(url) # EmptyKey)
  IN  [i \in DOMAIN kept |-> UrlKey(kept[i])]

\* a ?? b on a field of the update
Coalesce(updateData, storedMemorial, f) ==
  IF Nullish(updateData, f) THEN storedMemorial[f] ELSE updateData[f]

\* { ...storedMemorial, petName: .., shortMessage: .., memorialContent: .., images: .. }
\* (a field that is undefined on both sides is dropped by JSON.stringify)
MergedFields(storedMemorial, updateData) ==
  DOMAIN storedMemorial \cup
    {f \in {"petName", "shortMessage", "memorialContent", "images"} : ~Nullish(updateData, f)}

\* UpdatedMemorial as { ...storedMemorial, ...updateData }: every field of
\* the payload replaces the stored one
UpdatedMemorialFromPayload(storedMemorial, updateData) ==
  [f \in DOMAIN storedMemorial \cup DOMAIN updateData |->
     IF Has(updateData, f) THEN updateData[f] ELSE storedMemorial[f]]

\* UpdatedMemorial that also takes the slug of the payload, when it has one
UpdatedMemorialTakesSlug(storedMemorial, updateData) ==
  [f \in MergedFields(storedMemorial, updateData) |->
     IF f \in {"petName", "shortMessage", "memorialContent", "images"}
     THEN Coalesce(updateData, storedMemorial, f)
     ELSE IF f = "slug" /\ Has(updateData, "slug") THEN updateData.slug
     ELSE storedMemorial[f]]

UpdatedMemorial(storedMemorial, updateData) ==
  [f \in MergedFields(storedMemorial, updateData) |->
     IF f \in {"petName", "shortMessage", "memorialContent", "images"}
     THEN Coalesce(updateData, storedMemorial, f)
     ELSE storedMemorial[f]]

-----------------------------------------------------------------------------
(* The R2 bucket's DeleteObjects *)

\* s3.send(new DeleteObjectsCommand(..)): R2 deletes the listed keys except a
\* set it reports in Errors, or the call is rejected and nothing is deleted.
S3Outcomes(objectKeys) ==
  [errors : SUBSET Range(objectKeys), thrown : {FALSE}]
    \cup {[errors |-> {}, thrown |-> TRUE]}

S3Send(p, objectKeys, out) ==
  /\ s3' = [s3 EXCEPT ![p] = [sent |-> TRUE, keys |-> objectKeys,
                              errors |-> out.errors, thrown |-> out.thrown]]
  /\ blobs' = IF out.thrown THEN blobs ELSE blobs \ (Range(objectKeys) \ out.errors)

\* S3Failed without the test of Errors: only a rejected send fails
S3FailedOnlyThrown(out) == out.thrown

\* deleteResult.Errors && deleteResult.Errors.length > 0, or the send rejected
S3Failed(out) == out.thrown \/ out.errors # {}

\* what e.message is in the catch block
S3ErrorDetails(text, out) ==
  IF out.thrown THEN [text |-> "S3 request failed", args |-> {}]
  ELSE [text |-> text, args |-> out.errors]

-----------------------------------------------------------------------------
(* PUT /api/memorial/:slug *)

\* UpdateStart with the lookup before the test of the header: a slug that
\* holds no record is answered 404 whether or not a key is sent
UpdateStartLookupFirst(p, slug, editKey, body) ==
  /\ slug # ""
  /\ Arrive(p, "PUT /api/memorial/:slug", slug, editKey)
  /\ UNCHANGED <<env, kv, blobs>>
  /\ IF ~env.bucket
     THEN Reply(p, JsonResp(500, Err("Failed to update memorial.",
                   [text |-> "Configuration error: R2_BUCKET_NAME is not set.", args |-> {}])))
     ELSE IF KvGet(slug) = KvNull
     THEN Reply(p, JsonResp(404, Err("Memorial not found.", <<>>)))
     ELSE IF editKey = ""
     THEN Reply(p, JsonResp(401, Err("Authentication required. Edit key missing.", <<>>)))
     ELSE IF Parse(KvGet(slug)).editKey # editKey
     THEN Reply(p, JsonResp(403, Err("Forbidden. Invalid edit key.", <<>>)))
     ELSE IF body = Malformed
     THEN Reply(p, JsonResp(500, Err("Failed to update memorial.",
                   [text |-> "SyntaxError", args |-> {}])))
     ELSE LET storedMemorial == Parse(KvGet(slug))
              objectKeys == ObjectKeys(ImagesToDelete(storedMemorial, body))
              locals == [storedMemorial |-> storedMemorial, updateData |-> body,
                         objectKeys |-> objectKeys]
          IN  IF objectKeys # <<>>
              THEN Suspend(p, "update_s3", locals)
              ELSE Suspend(p, "update_put", locals)

\* Up to the first await that touches a store after MEMORIALS_KV.get: the
\* key and configuration checks, the lookup, the key comparison, the body,
\* and the list of objects to delete.
UpdateStart(p, slug, editKey, body) ==
  /\ slug # ""
  /\ Arrive(p, "PUT /api/memorial/:slug", slug, editKey)
  /\ UNCHANGED <<env, kv, blobs>>
  /\ IF editKey = ""
     THEN Reply(p, JsonResp(401, Err("Authentication required. Edit key missing.", <<>>)))
     ELSE IF ~env.bucket
     THEN Reply(p, JsonResp(500, Err("Failed to update memorial.",
                   [text |-> "Configuration error: R2_BUCKET_NAME is not set.", args |-> {}])))
     ELSE IF KvGet(slug) = KvNull
     THEN Reply(p, JsonResp(404, Err("Memorial not found.", <<>>)))
     ELSE IF Parse(KvGet(slug)).editKey # editKey
     THEN Reply(p, JsonResp(403, Err("Forbidden. Invalid edit key.", <<>>)))
     ELSE IF body = Malformed
     THEN Reply(p, JsonResp(500, Err("Failed to update memorial.",
                   [text |-> "SyntaxError", args |-> {}])))
     ELSE LET storedMemorial == Parse(KvGet(slug))
              objectKeys == ObjectKeys(ImagesToDelete(storedMemorial, body))
              locals == [storedMemorial |-> storedMemorial, updateData |-> body,
                         objectKeys |-> objectKeys]
          IN  IF objectKeys # <<>>
              THEN Suspend(p, "update_s3", locals)
              ELSE Suspend(p, "update_put", locals)

\* await s3.send(new DeleteObjectsCommand(..)); Errors make the handler throw
UpdateS3(p) ==
  /\ pc[p] = "update_s3"
  /\ UNCHANGED <<env, kv, req>>
  /\ \E out \in S3Outcomes(loc[p].objectKeys) :
       /\ S3Send(p, loc[p].objectKeys, out)
       /\ IF S3Failed(out)
          THEN Reply(p, JsonResp(500, Err("Failed to update memorial.",
                        S3ErrorDetails("Failed to remove old images from storage:", out))))
          ELSE /\ pc' = [pc EXCEPT ![p] = "update_put"]
               /\ UNCHANGED <<loc, resp>>

\* await MEMORIALS_KV.put(slug, JSON.stringify(updatedMemorial)), then 200
UpdatePut(p) ==
  /\ pc[p] = "update_put"
  /\ LET updatedMemorial == UpdatedMemorial(loc[p].storedMemorial, loc[p].updateData)
     IN  /\ kv' = [kv EXCEPT ![req[p].slug] = Stringify(updatedMemorial)]
         /\ Reply(p, JsonResp(200, Without(updatedMemorial, "editKey")))
  /\ UNCHANGED <<env, blobs, req, s3>>

-----------------------------------------------------------------------------
(* DELETE /api/memorial/:slug *)

\* DeleteObjectKeys whose map gives up at a URL that does not parse: no key
DeleteObjectKeysGivesUp(memorial) ==
  IF Nullish(memorial, "images") THEN <<>>
  ELSE IF \E url \in Range(memorial.images.list) : ~UrlParses(url) THEN <<>>
  ELSE ObjectKeys(memorial.images.list)

\* memorial.images && memorial.images.length > 0 ? objectKeys : none
DeleteObjectKeys(memorial) ==
  IF Nullish(memorial, "images") THEN <<>> ELSE ObjectKeys(memorial.images.list)

\* DeleteStart that answers 404 for a slug that holds no record
DeleteStartAbsentIs404(p, slug, editKey) ==
  /\ slug # ""
  /\ Arrive(p, "DELETE /api/memorial/:slug", slug, editKey)
  /\ UNCHANGED <<env, kv, blobs>>
  /\ IF editKey = ""
     THEN Reply(p, JsonResp(401, Err("Authentication required. Edit key missing.", <<>>)))
     ELSE IF ~env.bucket
     THEN Reply(p, JsonResp(500, Err("Failed to delete memorial from storage.",
                   [text |-> "Configuration error: R2_BUCKET_NAME is not set.", args |-> {}])))
     ELSE IF KvGet(slug) = KvNull
     THEN Reply(p, JsonResp(404, Err("Memorial not found.", <<>>)))
     ELSE IF Parse(KvGet(slug)).editKey # editKey
     THEN Reply(p, JsonResp(403, Err("Forbidden. Invalid edit key.", <<>>)))
     ELSE LET objectKeys == DeleteObjectKeys(Parse(KvGet(slug)))
          IN  IF objectKeys # <<>>
              THEN Suspend(p, "delete_s3", [objectKeys |-> objectKeys])
              ELSE Suspend(p, "delete_kv", [objectKeys |-> objectKeys])

\* DeleteStart without the deletion of the images: the record is deleted at once
DeleteStartSkipsBlobs(p, slug, editKey) ==
  /\ slug # ""
  /\ Arrive(p, "DELETE /api/memorial/:slug", slug, editKey)
  /\ UNCHANGED <<env, kv, blobs>>
  /\ IF editKey = ""
     THEN Reply(p, JsonResp(401, Err("Authentication required. Edit key missing.", <<>>)))
     ELSE IF ~env.bucket
     THEN Reply(p, JsonResp(500, Err("Failed to delete memorial from storage.",
                   [text |-> "Configuration error: R2_BUCKET_NAME is not set.", args |-> {}])))
     ELSE IF KvGet(slug) = KvNull
     THEN Reply(p, EmptyResp(204))
     ELSE IF Parse(KvGet(slug)).editKey # editKey
     THEN Reply(p, JsonResp(403, Err("Forbidden. Invalid edit key.", <<>>)))
     ELSE Suspend(p, "delete_kv", [objectKeys |-> <<>>])

\* DeleteStart without the comparison of the keys: any key that is sent passes
DeleteStartAnyKey(p, slug, editKey) ==
  /\ slug # ""
  /\ Arrive(p, "DELETE /api/memorial/:slug", slug, editKey)
  /\ UNCHANGED <<env, kv, blobs>>
  /\ IF editKey = ""
     THEN Reply(p, JsonResp(401, Err("Authentication required. Edit key missing.", <<>>)))
     ELSE IF ~env.bucket
     THEN Reply(p, JsonResp(500, Err("Failed to delete memorial from storage.",
                   [text |-> "Configuration error: R2_BUCKET_NAME is not set.", args |-> {}])))
     ELSE IF KvGet(slug) = KvNull
     THEN Reply(p, EmptyResp(204))
     ELSE LET objectKeys == DeleteObjectKeys(Parse(KvGet(slug)))
          IN  IF objectKeys # <<>>
              THEN Suspend(p, "delete_s3", [objectKeys |-> objectKeys])
              ELSE Suspend(p, "delete_kv", [objectKeys |-> objectKeys])

DeleteStart(p, slug, editKey) ==
  /\ slug # ""
  /\ Arrive(p, "DELETE /api/memorial/:slug", slug, editKey)
  /\ UNCHANGED <<env, kv, blobs>>
  /\ IF editKey = ""
     THEN Reply(p, JsonResp(401, Err("Authentication required. Edit key missing.", <<>>)))
     ELSE IF ~env.bucket
     THEN Reply(p, JsonResp(500, Err("Failed to delete memorial from storage.",
                   [text |-> "Configuration error: R2_BUCKET_NAME is not set.", args |-> {}])))
     ELSE IF KvGet(slug) = KvNull
     THEN Reply(p, EmptyResp(204))
     ELSE IF Parse(KvGet(slug)).editKey # editKey
     THEN Reply(p, JsonResp(403, Err("Forbidden. Invalid edit key.", <<>>)))
     ELSE LET objectKeys == DeleteObjectKeys(Parse(KvGet(slug)))
          IN  IF objectKeys # <<>>
              THEN Suspend(p, "delete_s3", [objectKeys |-> objectKeys])
              ELSE Suspend(p, "delete_kv", [objectKeys |-> objectKeys])

\* DeleteS3 without the throw: the handler goes on to delete the record
DeleteS3IgnoresErrors(p) ==
  /\ pc[p] = "delete_s3"
  /\ UNCHANGED <<env, kv, req>>
  /\ \E out \in S3Outcomes(loc[p].objectKeys) :
       /\ S3Send(p, loc[p].objectKeys, out)
       /\ pc' = [pc EXCEPT ![p] = "delete_kv"]
       /\ UNCHANGED <<loc, resp>>

\* DeleteS3 whose failure deletes the record all the same
DeleteS3FailureDeletesRecord(p) ==
  /\ pc[p] = "delete_s3"
  /\ UNCHANGED <<env, req>>
  /\ \E out \in S3Outcomes(loc[p].objectKeys) :
       /\ S3Send(p, loc[p].objectKeys, out)
       /\ IF S3Failed(out)
          THEN /\ kv' = [kv EXCEPT ![req[p].slug] = KvNull]
               /\ Reply(p, JsonResp(500, Err("Failed to delete memorial from storage.",
                             S3ErrorDetails("Failed to delete images from storage:", out))))
          ELSE /\ pc' = [pc EXCEPT ![p] = "delete_kv"]
               /\ UNCHANGED <<kv, loc, resp>>

\* await s3.send(new DeleteObjectsCommand(..)); Errors make the handler throw
DeleteS3(p) ==
  /\ pc[p] = "delete_s3"
  /\ UNCHANGED <<env, kv, req>>
  /\ \E out \in S3Outcomes(loc[p].objectKeys) :
       /\ S3Send(p, loc[p].objectKeys, out)
       /\ IF S3Failed(out)
          THEN Reply(p, JsonResp(500, Err("Failed to delete memorial from storage.",
                        S3ErrorDetails("Failed to delete images from storage:", out))))
          ELSE /\ pc' = [pc EXCEPT ![p] = "delete_kv"]
               /\ UNCHANGED <<loc, resp>>

\* await MEMORIALS_KV.delete(slug), then 204
DeleteKv(p) ==
  /\ pc[p] = "delete_kv"
  /\ kv' = [kv EXCEPT ![req[p].slug] = KvNull]
  /\ Reply(p, EmptyResp(204))
  /\ UNCHANGED <<env, blobs, req, s3>>

-----------------------------------------------------------------------------
(* POST /api/memorials/list *)

\* Summary without the projection: the record less its editKey
SummaryWhole(memorial) == Without(memorial, "editKey")

\* the { slug, petName, createdAt } of a parsed record (JSON.stringify drops
\* a field whose value is undefined)
Summary(memorial) ==
  [f \in {"slug", "petName", "createdAt"} \cap DOMAIN memorial |-> memorial[f]]

\* results.filter(json => json !== null).map(json => summary)
Summaries(results) ==
  LET found == SelectSeq(results, LAMBDA json : json # KvNull)
  IN  [i \in DOMAIN found |-> Summary(Parse(found[i]))]

\* Array.isArray(slugs): the requests of the model send slugs as a list, as
\* null, or not at all
IsArray(body, f) == ~Nullish(body, f)

\* The handler up to await Promise.all(kvPromises): slugs.map has issued one
\* get per slug, none of which has been served yet.
List(p, body) ==
  /\ Arrive(p, "POST /api/memorials/list", "", "")
  /\ UNCHANGED <<env, kv, blobs>>
  /\ IF body = Malformed
     THEN Reply(p, JsonResp(500, Err("SyntaxError", <<>>)))
     ELSE IF body = Null
     THEN Reply(p, JsonResp(500, Err("TypeError", <<>>)))
     ELSE IF ~IsArray(body, "slugs")
     THEN Reply(p, JsonResp(400,
                   Err("Request body must be an object with a slugs array.", <<>>)))
     ELSE IF body.slugs.list = <<>>
     THEN Reply(p, JsonResp(200, Arr(<<>>)))
     ELSE Suspend(p, "list_get", [slugs |-> body.slugs.list,
                                  results |-> [i \in DOMAIN body.slugs.list |-> KvNull],
                                  pending |-> DOMAIN body.slugs.list])

\* env.MEMORIALS_KV.get(slugs[i]) is served: each get reads the record store
\* when it is served, in any order, and the writes of other requests take
\* effect in between.  When the last get is served Promise.all resolves and
\* the handler answers with the summaries of what the gets have read.
ListGet(p, i) ==
  /\ pc[p] = "list_get"
  /\ i \in loc[p].pending
  /\ LET results == [loc[p].results EXCEPT ![i] = KvGet(loc[p].slugs[i])]
         pending == loc[p].pending \ {i}
     IN  IF pending = {}
         THEN Reply(p, JsonResp(200, Arr(Summaries(results))))
         ELSE /\ loc' = [loc EXCEPT ![p] = [slugs |-> loc[p].slugs, results |-> results,
                                            pending |-> pending]]
              /\ UNCHANGED <<pc, resp>>
  /\ UNCHANGED <<env, kv, blobs, req, s3>>

-----------------------------------------------------------------------------
(* POST /api/upload-url *)

\* expiresIn of the signed URL, in seconds
SignedUrlExpiry == 360

\* filename.split('.').pop()?.toLowerCase().replace(/[^a-z0-9]/g, '') || 'jpg'
FileExtension(filename) ==
  CASE filename = "photo.PNG" -> "png"
    [] filename = "a.tar.gz" -> "gz"
    [] filename = "noext" -> "noext"
    [] filename = "dot." -> "jpg"
    [] filename = "x.j-p_g" -> "jpg"
    [] OTHER -> "jpg"

\* UploadUrl that writes the object itself when it signs the URL
UploadUrlWritesObject(p, body, uuid) ==
  /\ Arrive(p, "POST /api/upload-url", "", "")
  /\ UNCHANGED <<env, kv>>
  /\ IF ~env.bucket
     THEN /\ Reply(p, JsonResp(500, Err("Worker Error:",
                   [text |-> "Configuration error: R2_BUCKET_NAME is not set in wrangler.toml under [vars].",
                    args |-> {}])))
          /\ UNCHANGED blobs
     ELSE IF body = Malformed
     THEN /\ Reply(p, JsonResp(500, Err("Worker Error:", [text |-> "SyntaxError", args |-> {}])))
          /\ UNCHANGED blobs
     ELSE IF body = Null
     THEN /\ Reply(p, JsonResp(500, Err("Worker Error:", [text |-> "TypeError", args |-> {}])))
          /\ UNCHANGED blobs
     ELSE IF FalsyStr(body, "filename") \/ FalsyStr(body, "contentType")
     THEN /\ Reply(p, JsonResp(400, Err("Filename and contentType are required", <<>>)))
          /\ UNCHANGED blobs
     ELSE LET uniqueKey == ObjKey(uuid, FileExtension(body.filename))
          IN  /\ blobs' = blobs \cup {uniqueKey}
              /\ Reply(p, JsonResp(200,
                    [uploadUrl |-> [put |-> uniqueKey, contentType |-> body.contentType,
                                    expiresIn |-> SignedUrlExpiry],
                     publicUrl |-> Url(uniqueKey)]))

\* uuid is what crypto.randomUUID() returns
UploadUrl(p, body, uuid) ==
  /\ Arrive(p, "POST /api/upload-url", "", "")
  /\ UNCHANGED <<env, kv, blobs>>
  /\ IF ~env.bucket
     THEN Reply(p, JsonResp(500, Err("Worker Error:",
                   [text |-> "Configuration error: R2_BUCKET_NAME is not set in wrangler.toml under [vars].",
                    args |-> {}])))
     ELSE IF body = Malformed
     THEN Reply(p, JsonResp(500, Err("Worker Error:", [text |-> "SyntaxError", args |-> {}])))
     ELSE IF body = Null
     THEN Reply(p, JsonResp(500, Err("Worker Error:", [text |-> "TypeError", args |-> {}])))
     ELSE IF FalsyStr(body, "filename") \/ FalsyStr(body, "contentType")
     THEN Reply(p, JsonResp(400, Err("Filename and contentType are required", <<>>)))
     ELSE LET uniqueKey == ObjKey(uuid, FileExtension(body.filename))
          IN  Reply(p, JsonResp(200,
                [uploadUrl |-> [put |-> uniqueKey, contentType |-> body.contentType,
                                expiresIn |-> SignedUrlExpiry],
                 publicUrl |-> Url(uniqueKey)]))

\* The browser PUTs the file to the signed URL: the object exists from then on.
ClientPut(key) ==
  /\ key \notin blobs
  /\ blobs' = blobs \cup {key}
  /\ UNCHANGED <<env, kv, pc, req, loc, s3, resp>>

-----------------------------------------------------------------------------
(* OPTIONS, and the requests no route matches *)

Options(p) ==
  /\ Arrive(p, "OPTIONS", "", "")
  /\ UNCHANGED <<env, kv, blobs>>
  /\ Reply(p, EmptyResp(204))

NotFound(p) ==
  /\ Arrive(p, "other", "", "")
  /\ UNCHANGED <<env, kv, blobs>>
  /\ Reply(p, PlainResp(404, "Not Found", TRUE))

-----------------------------------------------------------------------------
(* The requests of the model *)

\* the lists of at most n distinct URLs
ImageLists(urls, n) ==
  {Arr(l) : l \in {m \in UNION {[1..k -> urls] : k \in 0..n} :
                       \A i, j \in DOMAIN m : i # j => m[i] # m[j]}}

\* a field that is sent with one of vals, or not sent
OptField(f, vals) == {<<>>} \cup {f :> v : v \in vals}

\* the records the front end posts (useMemorials.addMemorial), with the
\* images and avatar fields drawn from imageFields and avatarFields
CreateBodies(slugs, editKeys, imageFields, avatarFields) ==
  {[slug |-> s, petName |-> "Milo", shortMessage |-> "", memorialContent |-> "",
    createdAt |-> "t0", editKey |-> k] @@ im @@ av :
     s \in slugs, k \in editKeys, im \in imageFields, av \in avatarFields}

\* bodies that POST /api/memorial rejects before it looks the slug up
InvalidCreateBodies(slugs) ==
  {Malformed} \cup
  UNION {{[petName |-> "Milo", editKey |-> "k1", images |-> Arr(<<>>)],
          [slug |-> "", petName |-> "Milo", editKey |-> "k1", images |-> Arr(<<>>)],
          [slug |-> s, petName |-> "", editKey |-> "k1", images |-> Arr(<<>>)],
          [slug |-> s, petName |-> "Milo", images |-> Arr(<<>>)],
          [slug |-> s, petName |-> "Milo", editKey |-> "", images |-> Arr(<<>>)]} : s \in slugs}

\* the bodies of PUT /api/memorial/:slug (MemorialUpdatePayload, any part of it)
UpdateBodies(textFields, imageFields, avatarFields) ==
  {Malformed} \cup
  {t @@ im @@ av : t \in textFields, im \in imageFields, av \in avatarFields}

\* a body that is a JSON number: destructuring it yields no slugs
JsonNumber == [number |-> TRUE]

ListBodies(slugs) ==
  {Malformed, Null, JsonNumber, <<>>, [slugs |-> Null]} \cup
  {[slugs |-> Arr(l)] : l \in UNION {[1..k -> slugs \cup {"ghost-99"}] : k \in 0..MaxSlugs}}

\* the bodies of POST /api/upload-url: not JSON, null (destructuring it
\* throws), a number and an empty object (destructuring yields undefined),
\* objects that lack a field or hold an empty one, and complete ones
UploadBodies ==
  {Malformed, Null, JsonNumber, <<>>, [filename |-> "photo.PNG"], [contentType |-> "image/png"],
   [filename |-> "photo.PNG", contentType |-> ""],
   [filename |-> "", contentType |-> "image/png"]} \cup
  {[filename |-> f, contentType |-> "image/png"] :
     f \in {"photo.PNG", "a.tar.gz", "noext", "dot.", "x.j-p_g"}}

\* what X-Edit-Key carries: a key, or nothing ("" stands for a missing header too)
Headers == EditKeys \cup {""}

-----------------------------------------------------------------------------
(* Next-state relations *)

\* One step of the worker or of a browser, with the requests drawn from the
\* profile P: the processes that handle requests, the slugs, bodies and
\* object keys they use.
Step(P) ==
  \/ \E p \in P.procs, body \in P.createBodies : CreateStart(p, body)
  \/ \E p \in P.procs : CreatePut(p)
  \/ \E p \in P.procs, slug \in P.slugs : Read(p, slug)
  \/ \E p \in P.procs : EmptySlug(p)
  \/ \E p \in P.procs, slug \in P.slugs, editKey \in Headers,
        body \in P.updateBodies : UpdateStart(p, slug, editKey, body)
  \/ \E p \in P.procs : UpdateS3(p)
  \/ \E p \in P.procs : UpdatePut(p)
  \/ \E p \in P.procs, slug \in P.slugs, editKey \in Headers :
        DeleteStart(p, slug, editKey)
  \/ \E p \in P.procs : DeleteS3(p)
  \/ \E p \in P.procs : DeleteKv(p)
  \/ \E p \in P.procs, body \in P.listBodies : List(p, body)
  \/ \E p \in P.procs, i \in 1..MaxSlugs : ListGet(p, i)
  \/ \E p \in P.procs, body \in P.uploadBodies, uuid \in {"u1", "u2"} : UploadUrl(p, body, uuid)
  \/ \E key \in P.blobKeys : ClientPut(key)
  \/ \E p \in P.procs : Options(p)
  \/ \E p \in P.procs : NotFound(p)

\* One request at a time, on two memorials with at most one image and an
\* avatar each.
Lifecycle ==
  [procs |-> {1},
   slugs |-> AllSlugs,
   createBodies |-> CreateBodies(AllSlugs, EditKeys,
                                 OptField("images", {Arr(<<UrlA>>)}),
                                 OptField("avatar", {UrlV}))
                      \cup InvalidCreateBodies({"milo-1"}),
   updateBodies |-> UpdateBodies({<<>>},
                                 OptField("images", {Arr(<<>>), Arr(<<UrlA>>)}),
                                 OptField("avatar", {UrlA, Null})),
   listBodies |-> {Malformed, [slugs |-> Arr(<<"milo-1", "ghost-99">>)]},
   uploadBodies |-> {[filename |-> "photo.PNG", contentType |-> "image/png"],
                     [filename |-> "photo.PNG"]},
   blobKeys |-> {KeyA, KeyV}]

Next == Step(Lifecycle)

Spec == Init /\ [][Next]_vars

\* the image lists of the Images profile: every list of at most MaxImages of
\* three uploaded images, and two lists with a URL that yields no object key
ManyLists ==
  ImageLists({UrlA, UrlB, UrlC}, MaxImages)
    \cup {Arr(<<BadUrl, UrlA>>), Arr(<<UrlB, RootUrl>>)}

\* One request at a time, on one memorial, with every image list.
Images ==
  [procs |-> {1},
   slugs |-> {"milo-1"},
   createBodies |-> CreateBodies({"milo-1"}, {"k1"}, OptField("images", ManyLists), {<<>>})
                      \cup {Malformed},
   updateBodies |-> UpdateBodies({<<>>}, OptField("images", ManyLists \cup {Null}), {<<>>}),
   listBodies |-> {[slugs |-> Arr(<<"milo-1">>)]},
   uploadBodies |-> {[filename |-> "photo.PNG", contentType |-> "image/png"]},
   blobKeys |-> {KeyA, KeyB, KeyC}]

NextImages == Step(Images)

SpecImages == Init /\ [][NextImages]_vars

\* Two requests at a time, on one memorial with one image: the handlers
\* interleave at their awaits.
Concurrent ==
  [procs |-> Procs,
   slugs |-> {"milo-1"},
   createBodies |-> CreateBodies({"milo-1"}, EditKeys, {"images" :> Arr(<<UrlA>>)}, {<<>>}),
   updateBodies |-> UpdateBodies({<<>>}, {"images" :> Arr(<<>>)}, {<<>>}),
   listBodies |-> {[slugs |-> Arr(<<"milo-1">>)], [slugs |-> Arr(<<"milo-1", "milo-1">>)]},
   uploadBodies |-> {[filename |-> "photo.PNG", contentType |-> "image/png"]},
   blobKeys |-> {KeyA}]

NextConcurrent == Step(Concurrent)

SpecConcurrent == Init /\ [][NextConcurrent]_vars

\* the text parts of the payloads of the Fields profile: the mutable text
\* fields, an empty petName, and the fields an Update must not change
TextParts ==
  {<<>>,
   [petName |-> "Rex"],
   [petName |-> ""],
   [shortMessage |-> "hello", memorialContent |-> "story"],
   [slug |-> "rex-2", createdAt |-> "t1", editKey |-> "k2", petName |-> "Rex"]}

\* One request at a time, on a memorial whose text fields are updated and
\* on one whose slug is not the slug segment of its own URL.
Fields ==
  [procs |-> {1},
   slugs |-> {"milo-1", PathSlug(SpacedSlug)},
   createBodies |-> CreateBodies({"milo-1", SpacedSlug}, {"k1"}, {<<>>},
                                 OptField("avatar", {UrlV}))
                      \cup {[slug |-> "milo-1", petName |-> "Milo", editKey |-> "k1",
                              images |-> Arr(<<UrlA>>)]}
                      \cup InvalidCreateBodies({"milo-1"}),
   updateBodies |-> UpdateBodies(TextParts, OptField("images", {Arr(<<>>)}), {<<>>}),
   listBodies |-> {[slugs |-> Arr(<<"milo-1">>)]},
   uploadBodies |-> {[filename |-> "photo.PNG", contentType |-> "image/png"]},
   blobKeys |-> {KeyA}]

NextFields == Step(Fields)

\* One request at a time, on two memorials, with every batch request of at
\* most MaxSlugs slugs and every body of a request for an upload URL.
Batch ==
  [procs |-> {1},
   slugs |-> AllSlugs,
   createBodies |-> CreateBodies(AllSlugs, {"k1"}, {<<>>}, {<<>>})
                      \cup {[slug |-> "rex-2", petName |-> "Rex", editKey |-> "k2",
                              images |-> Arr(<<UrlA>>)],
                            Malformed},
   updateBodies |-> UpdateBodies({[petName |-> "Max"]}, {<<>>}, {<<>>}),
   listBodies |-> ListBodies(AllSlugs),
   uploadBodies |-> UploadBodies,
   blobKeys |-> {KeyA}]

NextBatch == Step(Batch)

SpecBatch == Init /\ [][NextBatch]_vars

SpecFields == Init /\ [][NextFields]_vars

\* the last request of p was a Delete that failed in the object store
DeleteFailed(p) ==
  /\ pc[p] = "idle"
  /\ req[p].method = "DELETE /api/memorial/:slug"
  /\ resp[p].status = 500
  /\ s3[p].sent

\* the caller calls deleteMemorial(slug, editKey) again after it returned
\* { success: false }: the same Delete arrives, with the same key
RetryDelete(p) ==
  /\ DeleteFailed(p)
  /\ DeleteStart(p, req[p].slug, req[p].key)

\* One request at a time, on one memorial with one or two images, which is
\* created and deleted.
Retry ==
  [procs |-> {1},
   slugs |-> {"milo-1"},
   createBodies |-> CreateBodies({"milo-1"}, EditKeys,
                                 {"images" :> Arr(<<UrlA>>), "images" :> Arr(<<UrlA, UrlB>>)},
                                 {<<>>}),
   blobKeys |-> {KeyA, KeyB}]

NextRetry ==
  \/ \E p \in Retry.procs, body \in Retry.createBodies :
        CreateStart(p, body)
  \/ \E p \in Retry.procs : CreatePut(p)
  \/ \E p \in Retry.procs, slug \in Retry.slugs, editKey \in Headers :
        DeleteStart(p, slug, editKey)
  \/ \E p \in Retry.procs : DeleteS3(p)
  \/ \E p \in Retry.procs : DeleteKv(p)
  \/ \E key \in Retry.blobKeys : ClientPut(key)

\* a suspended handler goes on: the awaited s3.send and MEMORIALS_KV.delete
\* settle
FairRetry ==
  /\ WF_vars(\E p \in Retry.procs : DeleteS3(p))
  /\ WF_vars(\E p \in Retry.procs : DeleteKv(p))

SpecRetry == Init /\ [][NextRetry]_vars /\ FairRetry

-----------------------------------------------------------------------------
(* Shared vocabulary of the properties *)

\* a body that POST /api/memorial reads a slug from
NamesSlug(body, slug) == body # Malformed /\ Has(body, "slug") /\ body.slug = slug

\* a body that passes the validation of POST /api/memorial
WellFormed(body) ==
  body # Malformed /\ ~FalsyStr(body, "slug") /\ ~FalsyStr(body, "petName")
    /\ ~FalsyStr(body, "editKey")

\* a record is stored under slug
Stored(slug) == kv[slug] # KvNull

\* this step is the arrival of a request op at p
Arrives(p, op) == pc[p] = "idle" /\ req'[p].method = op

\* the last request of p was op, and it was answered with status
Answered(p, op, status) == pc[p] = "idle" /\ req[p].method = op /\ resp[p].status = status

-----------------------------------------------------------------------------
(* C1 *)

\* C1 as stated: while a record is stored under a slug, every Create that
\* names the slug, whatever its payload, is answered 409 and leaves the
\* record store as it is.
C1_AsStated ==
  [][\A p \in Lifecycle.procs, slug \in AllSlugs :
       (Arrives(p, "POST /api/memorial") /\ Stored(slug))
         => \A body \in Lifecycle.createBodies :
              (NamesSlug(body, slug) /\ CreateStart(p, body))
                => (resp'[p].status = 409 /\ kv' = kv)]_vars

\* C1, amended: from a successful Create of a slug until a successful Delete
\* of it a record is stored under the slug; while it is, every Create that
\* names the slug leaves the record store as it is and is answered 409 when
\* its petName and editKey are not empty and 400 otherwise; and while no
\* record is stored under a slug (as after a successful Delete) a Create of
\* it can succeed.
C1_Uniqueness ==
  /\ [][\A p \in Lifecycle.procs, slug \in AllSlugs :
          (Arrives(p, "POST /api/memorial") /\ Stored(slug))
            => \A body \in Lifecycle.createBodies :
                 (NamesSlug(body, slug) /\ CreateStart(p, body))
                   => /\ kv' = kv
                      /\ pc'[p] = "idle"
                      /\ resp'[p].status = IF WellFormed(body) THEN 409 ELSE 400]_vars
  /\ [][\A p \in Lifecycle.procs :
          CreatePut(p) => (resp'[p].status = 201 /\ kv'[loc[p].newMemorial.slug] # KvNull)]_vars
  /\ [][\A slug \in AllSlugs :
          (Stored(slug) /\ kv'[slug] = KvNull)
            => \E p \in Lifecycle.procs :
                 DeleteKv(p) /\ req[p].slug = slug /\ resp'[p].status = 204]_vars
  /\ [](\A p \in Lifecycle.procs, slug \in AllSlugs :
          /\ (pc[p] = "idle" /\ ~Stored(slug))
               => ENABLED (\E body \in Lifecycle.createBodies :
                             CreateStart(p, body) /\ NamesSlug(body, slug)
                               /\ pc'[p] = "create_put")
          /\ pc[p] = "create_put" => ENABLED (CreatePut(p) /\ resp'[p].status = 201))

\* a Create of a taken slug has just been answered 409
C1_Witness ==
  \E slug \in AllSlugs :
    Stored(slug) /\ Answered(1, "POST /api/memorial", 409) /\ req[1].slug = slug

-----------------------------------------------------------------------------
(* C2 *)

\* C2: two Creates of one slug that run concurrently do not both succeed.
\* When the Create of p has been answered 201 while the Create of q for the
\* same slug is suspended between its lookup and its write (q looked the
\* slug up before p wrote it, p has handled nothing since its 201), the
\* Create of q is rejected with 409.
C2_OneCreateWins ==
  [][\A p, q \in Concurrent.procs :
       (/\ p # q
        /\ Answered(p, "POST /api/memorial", 201)
        /\ req[q].slug = req[p].slug
        /\ CreatePut(q))
         => resp'[q].status = 409]_vars

-----------------------------------------------------------------------------
(* C3 *)

\* the request that arrives at p in this step is answered with status at
\* once, and neither store is touched: the record store and the bucket are
\* as before and no DeleteObjects has been sent
Refused(p, status) ==
  /\ kv' = kv
  /\ blobs' = blobs
  /\ s3'[p] = NoCmd
  /\ pc'[p] = "idle"
  /\ resp'[p].status = status

\* this step is the arrival at p of an Update or a Delete of slug that
\* carries editKey
Sends(p, slug, editKey) ==
  /\ pc[p] = "idle"
  /\ req'[p].method \in {"PUT /api/memorial/:slug", "DELETE /api/memorial/:slug"}
  /\ req'[p].slug = slug
  /\ req'[p].key = editKey

\* the X-Edit-Key of a request on slug is missing, or is not the stored one
Unauthorized(slug, editKey) ==
  editKey = "" \/ (Stored(slug) /\ editKey # Parse(kv[slug]).editKey)

\* C3 as stated: an Update or a Delete whose key is missing or differs from
\* the stored one changes nothing and is answered 401 (missing) or 403
\* (wrong).
C3_AsStated ==
  [][\A p \in Lifecycle.procs, slug \in Lifecycle.slugs, editKey \in Headers :
       (Sends(p, slug, editKey) /\ Unauthorized(slug, editKey))
         => /\ \A body \in Lifecycle.updateBodies :
                 UpdateStart(p, slug, editKey, body)
                   => Refused(p, IF editKey = "" THEN 401 ELSE 403)
            /\ DeleteStart(p, slug, editKey)
                 => Refused(p, IF editKey = "" THEN 401 ELSE 403)]_vars

\* C3, amended: an Update or a Delete whose key is missing or differs from
\* the stored one changes nothing: the record store is as before and no
\* object-store delete is issued.  It is answered 401 when the key is
\* missing; when the key is wrong it is answered 403 if the worker has its
\* bucket name, and 500 if it has not.
C3_Unauthorized ==
  [][\A p \in Lifecycle.procs, slug \in Lifecycle.slugs, editKey \in Headers :
       (Sends(p, slug, editKey) /\ Unauthorized(slug, editKey))
         => LET status == IF editKey = "" THEN 401 ELSE IF env.bucket THEN 403 ELSE 500
            IN  /\ \A body \in Lifecycle.updateBodies :
                     UpdateStart(p, slug, editKey, body) => Refused(p, status)
                /\ DeleteStart(p, slug, editKey) => Refused(p, status)]_vars

\* a Delete of a stored record with a key that is not the stored one has
\* just been answered 403
C3_Witness ==
  /\ Answered(1, "DELETE /api/memorial/:slug", 403)
  /\ Stored(req[1].slug)
  /\ req[1].key \notin {"", Parse(kv[req[1].slug]).editKey}

-----------------------------------------------------------------------------
(* C4 *)

\* the JSON objects of the body of the last response of p: the summaries of
\* a batch answer, or the one object of any other body
BodyObjects(p) ==
  IF ~Has(resp[p], "json") THEN {}
  ELSE IF req[p].method = "POST /api/memorials/list" /\ resp[p].status = 200
  THEN Range(resp[p].json.list)
  ELSE {resp[p].json}

\* C4: no response body of any operation, the error responses included,
\* holds an editKey: no object of a body has an editKey field, and no text
\* field of it is an edit key.
C4_EditKeySecrecy ==
  \A p \in Procs : \A obj \in BodyObjects(p) :
    /\ ~Has(obj, "editKey")
    /\ \A f \in DOMAIN obj \cap TextFields : obj[f] \notin EditKeys

\* a Read has just returned a record that is stored with its editKey
C4_Witness ==
  /\ Answered(1, "GET /api/memorial/:slug", 200)
  /\ Stored(req[1].slug)
  /\ Parse(kv[req[1].slug]).editKey \in EditKeys
  /\ resp[1].json = Without(Parse(kv[req[1].slug]), "editKey")

-----------------------------------------------------------------------------
(* C5 *)

\* the payload sends images, as a list
SendsImages(updateData) == Has(updateData, "images") /\ updateData.images # Null

\* the images of the record stored under slug
StoredImages(slug) == OriginalImageUrls(Parse(kv[slug]))

\* the URL names an object of the bucket
MapsToKey(url) == UrlParses(url) /\ UrlKey(url) # EmptyKey

\* the object keys of the URLs of a set
KeysOf(urls) == {UrlKey(url) : url \in {u \in urls : MapsToKey(u)}}

\* the object keys whose deletion p has requested for its request
Requested(p) == IF s3[p].sent THEN Range(s3[p].keys) ELSE {}

\* C5: in a successful Update of a record whose images are OLD, with a
\* payload whose images are NEW, the delete that is sent names exactly the
\* blobs of the URLs of OLD that are not in NEW and deletes them, the other
\* blobs are as before (none of a URL in both or only in NEW is deleted), and
\* the record is stored with images = NEW, in the order of the payload.
C5_ImageReconciliation ==
  /\ [][\A p \in Images.procs :
          (UpdateS3(p) /\ SendsImages(loc[p].updateData) /\ pc'[p] = "update_put")
            => LET old == Range(StoredImages(req[p].slug))
                   new == Range(loc[p].updateData.images.list)
               IN  /\ Range(s3'[p].keys) = KeysOf(old \ new)
                   /\ blobs' = blobs \ KeysOf(old \ new)
                   /\ blobs' \cap KeysOf(new) = blobs \cap KeysOf(new)]_vars
  /\ [][\A p \in Images.procs :
          (UpdatePut(p) /\ SendsImages(loc[p].updateData))
            => LET old == Range(StoredImages(req[p].slug))
                   new == Range(loc[p].updateData.images.list)
               IN  /\ Requested(p) = KeysOf(old \ new)
                   /\ Requested(p) \cap KeysOf(new) = {}
                   /\ resp'[p].status = 200
                   /\ Parse(kv'[req[p].slug]).images = loc[p].updateData.images
                   /\ resp'[p].json.images = loc[p].updateData.images]_vars

\* images [A, B, C] have been updated with [A, C]: the delete named B alone,
\* the record lists [A, C], and the blobs of A and C are in the bucket
C5_Witness ==
  /\ Answered(1, "PUT /api/memorial/:slug", 200)
  /\ s3[1].sent /\ s3[1].keys = <<KeyB>>
  /\ Parse(kv["milo-1"]).images = Arr(<<UrlA, UrlC>>)
  /\ blobs = {KeyA, KeyC}

-----------------------------------------------------------------------------
(* C6 *)

\* the object keys that the message of an error response names
KeysNamed(r) == r.json.error.args.args

\* C6: when the delete that an Update issued reports an error for at least
\* one key, the Update is answered 500 with a message that names the failed
\* keys, and the record store is not written: the handler has returned and
\* the stored record is the one from before the Update.
C6_UpdateFailsOnStorageError ==
  /\ [][\A p \in Images.procs :
          (UpdateS3(p) /\ s3'[p].errors # {})
            => /\ kv' = kv
               /\ pc'[p] = "idle"
               /\ resp'[p].status = 500
               /\ KeysNamed(resp'[p]) = s3'[p].errors]_vars
  /\ [](\A p \in Images.procs :
          (Answered(p, "PUT /api/memorial/:slug", 500) /\ s3[p].sent /\ s3[p].errors # {})
            => /\ Stored(req[p].slug)
               /\ s3[p].errors \subseteq KeysOf(Range(StoredImages(req[p].slug))))

\* an Update has been answered 500 after the delete of two keys failed for
\* one of them and removed the other
C6_Witness ==
  /\ Answered(1, "PUT /api/memorial/:slug", 500)
  /\ s3[1].sent /\ Len(s3[1].keys) = 2
  /\ s3[1].errors = {s3[1].keys[1]}
  /\ KeysNamed(resp[1]) = s3[1].errors
  /\ Stored("milo-1")

-----------------------------------------------------------------------------
(* C7 *)

\* C7: when the delete that a Delete with the right key issued reports an
\* error for at least one blob, the Delete is answered 500 and the record
\* store is not touched: afterwards the record is stored and lists all the
\* images it listed.
C7_DeleteFailsOnStorageError ==
  /\ [][\A p \in Images.procs :
          (DeleteS3(p) /\ s3'[p].errors # {})
            => /\ kv' = kv
               /\ pc'[p] = "idle"
               /\ resp'[p].status = 500]_vars
  /\ [](\A p \in Images.procs :
          (Answered(p, "DELETE /api/memorial/:slug", 500) /\ s3[p].sent /\ s3[p].errors # {})
            => /\ Stored(req[p].slug)
               /\ Parse(kv[req[p].slug]).editKey = req[p].key
               /\ ObjectKeys(StoredImages(req[p].slug)) = s3[p].keys)

\* a Delete has been answered 500 after the delete of three blobs failed for
\* one of them; the record is stored with its three images
C7_Witness ==
  /\ Answered(1, "DELETE /api/memorial/:slug", 500)
  /\ s3[1].sent /\ Cardinality(s3[1].errors) = 1
  /\ Stored("milo-1")
  /\ Len(StoredImages("milo-1")) = 3

-----------------------------------------------------------------------------
(* C8 *)

\* C8: in a Delete that succeeds on a stored record, the delete of the blobs
\* of the record's images (of every image URL that maps to an object key) has
\* been sent and has returned without errors, the blobs removed, while the
\* record was still stored; only then is the record deleted, and the 204
\* leaves no record under the slug.
C8_DeleteOrdering ==
  /\ [][\A p \in Images.procs :
          (DeleteS3(p) /\ pc'[p] = "delete_kv")
            => LET keys == KeysOf(Range(StoredImages(req[p].slug)))
               IN  /\ Range(s3'[p].keys) = keys
                   /\ s3'[p].errors = {} /\ ~s3'[p].thrown
                   /\ blobs' \cap keys = {}
                   /\ kv' = kv /\ Stored(req[p].slug)]_vars
  /\ [][\A p \in Images.procs :
          DeleteKv(p)
            => LET keys == KeysOf(Range(StoredImages(req[p].slug)))
               IN  /\ Stored(req[p].slug)
                   /\ keys # {} => /\ s3[p].sent
                                    /\ Range(s3[p].keys) = keys
                                    /\ s3[p].errors = {} /\ ~s3[p].thrown
                   /\ kv'[req[p].slug] = KvNull
                   /\ resp'[p].status = 204]_vars

\* a Delete of a record with three images has returned 204: the delete of
\* the three blobs was sent and reported no error, the record is gone
C8_Witness ==
  /\ Answered(1, "DELETE /api/memorial/:slug", 204)
  /\ s3[1].sent /\ Len(s3[1].keys) = 3 /\ s3[1].errors = {}
  /\ ~Stored("milo-1")
  /\ blobs \cap Range(s3[1].keys) = {}

-----------------------------------------------------------------------------
(* C9 *)

\* the record has an avatar URL
HasAvatar(memorial) == Has(memorial, "avatar") /\ memorial.avatar # Null

\* C9: a successful Delete of a record that has an avatar deletes the
\* avatar's blob before it deletes the record: when the record is deleted,
\* the delete that was sent for the request has named the avatar's key.
C9_AvatarBlobDeleted ==
  [][\A p \in Lifecycle.procs :
       DeleteKv(p)
         => LET memorial == Parse(kv[req[p].slug])
            IN  HasAvatar(memorial)
                  => UrlKey(memorial.avatar) \in Requested(p)]_vars

-----------------------------------------------------------------------------
(* C10 *)

\* C10: an Update of a record with a stored avatar whose payload sends
\* another avatar, a URL or null, requests the deletion of the old avatar's
\* blob and stores the payload's value; a payload that does not send avatar
\* leaves the stored avatar as it is and requests no deletion of its blob.
C10_AvatarReconciled ==
  [][\A p \in Lifecycle.procs :
       (UpdatePut(p) /\ HasAvatar(loc[p].storedMemorial))
         => LET old == loc[p].storedMemorial.avatar
                updateData == loc[p].updateData
                updated == Parse(kv'[req[p].slug])
            IN  IF Has(updateData, "avatar") /\ updateData.avatar # old
                THEN /\ updated.avatar = updateData.avatar
                     /\ UrlKey(old) \in Requested(p)
                ELSE /\ updated.avatar = old
                     /\ UrlKey(old) \notin Requested(p)]_vars

-----------------------------------------------------------------------------
(* C11 *)

\* the fields of a record that an Update may change
Mutable == {"petName", "shortMessage", "memorialContent", "images"}

\* the record has the same f, or the same lack of it, in old and new
SameField(old, new, f) ==
  /\ Has(old, f) <=> Has(new, f)
  /\ Has(old, f) => new[f] = old[f]

\* C11: a successful Update changes at most petName, shortMessage,
\* memorialContent and images of the stored record: every other field of
\* the record (slug, createdAt and editKey among them) is stored as before
\* whatever the payload holds, no other field is added, and each of the four
\* that the payload omits is stored as before.
C11_UpdateFrame ==
  [][\A p \in Fields.procs :
       UpdatePut(p)
         => LET old == Parse(kv[req[p].slug])
                new == Parse(kv'[req[p].slug])
                updateData == loc[p].updateData
            IN  /\ resp'[p].status = 200
                /\ \A slug \in KvKeys \ {req[p].slug} : kv'[slug] = kv[slug]
                /\ \A f \in (DOMAIN old \cup DOMAIN new \cup DOMAIN updateData) \ Mutable :
                     SameField(old, new, f)
                /\ \A f \in Mutable : ~Has(updateData, f) => SameField(old, new, f)]_vars

\* an Update has been answered 200 and has changed the petName of the
\* record: its slug, createdAt and editKey are the ones of its creation
C11_Witness ==
  /\ Answered(1, "PUT /api/memorial/:slug", 200)
  /\ Stored("milo-1")
  /\ Parse(kv["milo-1"]).petName = "Rex"
  /\ Parse(kv["milo-1"]).slug = "milo-1"
  /\ Parse(kv["milo-1"]).editKey = "k1"
  /\ Has(Parse(kv["milo-1"]), "createdAt") /\ Parse(kv["milo-1"]).createdAt = "t0"

-----------------------------------------------------------------------------
(* C12 *)

\* C12 as stated: a Delete that carries a key, of a slug under which no
\* record is stored, is answered 204 and changes neither store.
C12_AsStated ==
  [][\A p \in Fields.procs, slug \in Fields.slugs, editKey \in EditKeys :
       (Sends(p, slug, editKey) /\ ~Stored(slug) /\ DeleteStart(p, slug, editKey))
         => Refused(p, 204)]_vars

\* C12, amended: a Delete that carries a key, of a slug under which no
\* record is stored, changes neither store; it is answered 204 if the worker
\* has its bucket name and 500 if it has not.  A successful Delete leaves no
\* record under the slug in a worker that has its bucket name, so a second
\* Delete after it is answered 204.
C12_IdempotentDelete ==
  /\ [][\A p \in Fields.procs, slug \in Fields.slugs, editKey \in EditKeys :
          (Sends(p, slug, editKey) /\ ~Stored(slug) /\ DeleteStart(p, slug, editKey))
            => Refused(p, IF env.bucket THEN 204 ELSE 500)]_vars
  /\ [][\A p \in Fields.procs :
          DeleteKv(p) => (resp'[p].status = 204 /\ kv'[req[p].slug] = KvNull /\ env'.bucket)]_vars

\* a Delete with a key has been answered 204 for a slug that holds no
\* record, without a delete of blobs
C12_Witness ==
  /\ Answered(1, "DELETE /api/memorial/:slug", 204)
  /\ req[1].key \in EditKeys
  /\ ~Stored(req[1].slug)
  /\ ~s3[1].sent
  /\ \A slug \in KvKeys : ~Stored(slug)

-----------------------------------------------------------------------------
(* C13 *)

\* C13: a Read of the slug of a record, directly after the Create of the
\* record was answered 201, returns 200 with the created record less its
\* editKey.  The Read is the request on /api/memorial/<slug>, whose path
\* holds the slug as a URL holds it.
C13_RoundTrip ==
  [][\A p \in Fields.procs :
       (/\ Answered(p, "POST /api/memorial", 201)
        /\ Read(p, PathSlug(req[p].slug)))
         => /\ resp'[p].status = 200
            /\ resp'[p].json = Without(Parse(kv[req[p].slug]), "editKey")]_vars

-----------------------------------------------------------------------------
(* C14 *)

\* the body of a batch request carries a list of slugs
ListsSlugs(body) ==
  body \notin {Malformed, Null} /\ Has(body, "slugs") /\ body.slugs # Null

\* a record is stored under the slug
HasRecord(slug) == slug \in DOMAIN kv /\ kv[slug] # KvNull

\* how many of the first i slugs of the list have a record
Found(slugs, i) == Cardinality({j \in 1..i : HasRecord(slugs[j])})

\* C14: a batch request over a list of slugs, with and without a stored
\* record, is answered 200 with one summary for each listed slug that has a
\* record, in the order of the list, which holds the slug, petName and
\* createdAt of the record and nothing else; the slugs without a record add
\* nothing and do not make the call fail.  The request is not answered with
\* an error when it arrives; the answer comes when the last get is served,
\* and is stated for a batch during which no other request writes a record.
C14_BatchSummaries ==
  /\ [][\A p \in Batch.procs :
          Arrives(p, "POST /api/memorials/list")
            => \A body \in Batch.listBodies :
                 (ListsSlugs(body) /\ List(p, body))
                   => IF body.slugs.list = <<>>
                      THEN resp'[p] = JsonResp(200, Arr(<<>>))
                      ELSE /\ resp'[p] = NoResp /\ pc'[p] = "list_get"
                           /\ loc'[p].slugs = body.slugs.list
                           /\ loc'[p].pending = DOMAIN body.slugs.list]_vars
  /\ [][\A p \in Batch.procs, n \in 1..MaxSlugs :
          (ListGet(p, n) /\ pc'[p] = "idle")
                => LET slugs == loc[p].slugs
                       json == resp'[p].json.list
                   IN  /\ resp'[p].status = 200
                       /\ Len(json) = Found(slugs, Len(slugs))
                       /\ \A i \in DOMAIN slugs :
                            HasRecord(slugs[i])
                              => LET memorial == Parse(kv[slugs[i]])
                                     summary == json[Found(slugs, i)]
                                 IN  /\ DOMAIN summary =
                                          {"slug", "petName", "createdAt"} \cap DOMAIN memorial
                                     /\ \A f \in DOMAIN summary : summary[f] = memorial[f]]_vars

\* a batch request has been answered 200 with the summary of the one
\* memorial that is stored, while the other slug holds no record
C14_Witness ==
  /\ Answered(1, "POST /api/memorials/list", 200)
  /\ Stored("milo-1") /\ ~Stored("rex-2")
  /\ Len(resp[1].json.list) = 1
  /\ resp[1].json.list[1] = [slug |-> "milo-1", petName |-> Parse(kv["milo-1"]).petName,
                         createdAt |-> "t0"]

-----------------------------------------------------------------------------
(* C15 *)

\* C15: a record is stored from a successful Create until a successful
\* Delete.  While no record is stored under a slug, as after a Delete of it
\* has returned 204, the only step that stores one is the write of a Create
\* of the slug that is answered 201; an Update that runs concurrently with
\* the Delete does not.
C15_StoredFromCreateToDelete ==
  [][\A slug \in Concurrent.slugs :
       (~Stored(slug) /\ kv'[slug] # KvNull)
         => \E p \in Concurrent.procs :
              /\ CreatePut(p)
              /\ loc[p].newMemorial.slug = slug
              /\ resp'[p].status = 201]_vars

-----------------------------------------------------------------------------
(* C16 *)

\* the last request of p, an Update or a Delete, ended with a storage error
\* after the bucket deleted some of the requested keys and not others
PartlyDeleted(p) ==
  /\ pc[p] = "idle"
  /\ req[p].method \in {"PUT /api/memorial/:slug", "DELETE /api/memorial/:slug"}
  /\ resp[p].status = 500
  /\ s3[p].sent /\ s3[p].errors # {}
  /\ Range(s3[p].keys) \ s3[p].errors # {}

\* C16: when an Update or a Delete has ended with a storage error after the
\* bucket deleted only some of the requested keys, the stored record lists
\* no image whose blob the failed call deleted.
C16_AllOrNothing ==
  \A p \in Images.procs :
    (PartlyDeleted(p) /\ Stored(req[p].slug))
      => KeysOf(Range(StoredImages(req[p].slug))) \cap (Range(s3[p].keys) \ s3[p].errors) = {}

-----------------------------------------------------------------------------
(* C17 *)

\* C17: in a worker that has its bucket name, an Update is answered 401
\* when the key is missing, whether or not a record is stored under the
\* slug; 404 when a key is sent and no record is stored; 403 when a record
\* is stored and the key is not its editKey; and an Update is answered 200,
\* with the record it stored less the editKey, only when its key is the
\* stored one and the delete it sent, if any, reported no error.
C17_UpdateStatuses ==
  /\ [][\A p \in Fields.procs, slug \in Fields.slugs, editKey \in Headers :
          (Sends(p, slug, editKey) /\ env.bucket)
            => \A body \in Fields.updateBodies :
                 UpdateStart(p, slug, editKey, body)
                   => IF editKey = "" THEN Refused(p, 401)
                      ELSE IF ~Stored(slug) THEN Refused(p, 404)
                      ELSE IF editKey # Parse(kv[slug]).editKey THEN Refused(p, 403)
                      ELSE resp'[p].status \notin {200, 401, 403, 404}]_vars
  /\ [][\A p \in Fields.procs :
          (/\ req'[p].method = "PUT /api/memorial/:slug"
           /\ resp'[p].status = 200
           /\ resp'[p] # resp[p])
            => /\ UpdatePut(p)
               /\ env.bucket
               /\ Stored(req[p].slug)
               /\ req[p].key = Parse(kv[req[p].slug]).editKey
               /\ s3[p].sent => (s3[p].errors = {} /\ ~s3[p].thrown)
               /\ resp'[p].json = Without(Parse(kv'[req[p].slug]), "editKey")]_vars

\* an Update that carries a key has been answered 404 for a slug that holds
\* no record, in a worker that has its bucket name
C17_Witness ==
  /\ Answered(1, "PUT /api/memorial/:slug", 404)
  /\ env.bucket
  /\ req[1].key \in EditKeys
  /\ ~Stored(req[1].slug)

-----------------------------------------------------------------------------
(* C18 *)

\* C18: a Create whose slug, petName or editKey is missing or empty (or
\* whose body is not JSON) is answered 400, and a Create with the three
\* fields whose slug is taken is answered 409; in both cases the record
\* store and the bucket are as before and no object-store request is sent.
C18_CreateRejections ==
  [][\A p \in Fields.procs :
       Arrives(p, "POST /api/memorial")
         => \A body \in Fields.createBodies :
              CreateStart(p, body)
                => /\ ~WellFormed(body) => Refused(p, 400)
                   /\ (WellFormed(body) /\ Stored(body.slug)) => Refused(p, 409)
                   /\ (WellFormed(body) /\ ~Stored(body.slug)) => pc'[p] = "create_put"]_vars

\* a Create without one of the required fields has been answered 400 while
\* a record is stored
C18_Witness ==
  /\ Answered(1, "POST /api/memorial", 400)
  /\ req[1].slug = "milo-1"
  /\ Stored("milo-1")
  /\ ~s3[1].sent

-----------------------------------------------------------------------------
(* C19 *)

\* C19: every stored record has a petName that is not empty, in every state
\* that Creates and Updates lead to.
C19_PetNameNotEmpty ==
  \A slug \in KvKeys :
    Stored(slug) => ~FalsyStr(Parse(kv[slug]), "petName")

-----------------------------------------------------------------------------
(* C20 *)

\* C20: a batch request whose body is malformed (not JSON, JSON that is not
\* an object, or an object whose slugs is not a list) is answered 400, and
\* nothing is changed.
C20_BatchMalformed ==
  [][\A p \in Batch.procs :
       Arrives(p, "POST /api/memorials/list")
         => \A body \in Batch.listBodies :
              (~ListsSlugs(body) /\ List(p, body)) => Refused(p, 400)]_vars

-----------------------------------------------------------------------------
(* C21 *)

\* C21: every response of the worker carries the CORS headers, whatever the
\* method, the path and the outcome, and an OPTIONS request is answered 204
\* with no body and the same headers.
C21_CorsEverywhere ==
  \A p \in Procs :
    /\ resp[p] # NoResp => resp[p].cors
    /\ (pc[p] = "idle" /\ req[p].method = "OPTIONS") => resp[p] = EmptyResp(204)

-----------------------------------------------------------------------------
(* C22 *)

\* the caller repeats a failed Delete for as long as it fails
CallerRetries(p) == WF_vars(RetryDelete(p))

\* the object store does not report errors for ever
StoreRecovers(p) == SF_vars(DeleteS3(p) /\ pc'[p] = "delete_kv")

\* the last request of p is the Delete of slug with editKey
SameDelete(p, slug, editKey) ==
  req[p] = [method |-> "DELETE /api/memorial/:slug", slug |-> slug, key |-> editKey]

\* C22: after a Delete failed because the deletion of the blobs failed, the
\* record is stored with its editKey, the key of the failed request; and in
\* every behaviour in which the caller repeats a failed Delete and the object
\* store does not fail for ever, a failed Delete leads to the same Delete
\* being answered 204 with no record stored under the slug, unless the
\* caller has sent another request instead of repeating it.
C22_RetrySucceeds ==
  \A p \in Retry.procs :
    /\ [](DeleteFailed(p)
            => /\ Stored(req[p].slug)
               /\ Parse(kv[req[p].slug]).editKey = req[p].key)
    /\ (CallerRetries(p) /\ StoreRecovers(p))
         => \A slug \in Retry.slugs, editKey \in EditKeys :
              (DeleteFailed(p) /\ SameDelete(p, slug, editKey))
                ~> \/ /\ SameDelete(p, slug, editKey)
                       /\ Answered(p, "DELETE /api/memorial/:slug", 204)
                       /\ ~Stored(slug)
                    \/ ~SameDelete(p, slug, editKey)

\* a Delete of a memorial with two images has failed after the object store
\* deleted one blob and not the other; the record is stored
C22_Witness ==
  /\ DeleteFailed(1)
  /\ Len(s3[1].keys) = 2 /\ Cardinality(s3[1].errors) = 1
  /\ Stored(req[1].slug)


-----------------------------------------------------------------------------
(* C23 *)

\* the record stored under slug lists an image URL that does not parse
ListsBadUrl(slug) ==
  Stored(slug) /\ \E url \in Range(StoredImages(slug)) : ~UrlParses(url)

\* C23 as the spec states it: a Delete with the right key of a record that
\* lists an image URL that does not parse is answered 204, whatever else
\* happens.
C23_AsStated ==
  [][\A p \in Images.procs :
       (/\ pc'[p] = "idle" /\ resp'[p] # resp[p]
        /\ req'[p].method = "DELETE /api/memorial/:slug"
        /\ ListsBadUrl(req'[p].slug)
        /\ Parse(kv[req'[p].slug]).editKey = req'[p].key)
         => resp'[p].status = 204]_vars

\* C23: with the bucket name configured, a Delete with the right key of a
\* record that lists an image URL that does not parse skips that URL and goes
\* on: the delete it sends names the object keys of the record's other image
\* URLs; when the object store reports no error their blobs are gone and the
\* handler goes on to delete the record, and that step deletes the record
\* and answers 204.
C23_SkipsBadUrl ==
  /\ [][\A p \in Images.procs, slug \in Images.slugs, editKey \in EditKeys :
          (/\ Sends(p, slug, editKey) /\ DeleteStart(p, slug, editKey)
           /\ env.bucket /\ ListsBadUrl(slug)
           /\ Parse(kv[slug]).editKey = editKey)
            => LET keys == KeysOf(Range(StoredImages(slug)))
               IN  /\ resp'[p] = NoResp
                   /\ Range(loc'[p].objectKeys) = keys
                   /\ pc'[p] = IF keys # {} THEN "delete_s3" ELSE "delete_kv"]_vars
  /\ [][\A p \in Images.procs :
          (DeleteS3(p) /\ ListsBadUrl(req[p].slug) /\ ~S3Failed([errors |-> s3'[p].errors, thrown |-> s3'[p].thrown]))
            => LET keys == KeysOf(Range(StoredImages(req[p].slug)))
               IN  /\ Range(s3'[p].keys) = keys
                   /\ blobs' \cap keys = {}
                   /\ pc'[p] = "delete_kv"]_vars
  /\ [][\A p \in Images.procs :
          (DeleteKv(p) /\ ListsBadUrl(req[p].slug))
            => /\ ~Stored(req[p].slug)'
               /\ resp'[p] = EmptyResp(204)]_vars

\* the Delete of a record that lists a URL that does not parse and the URL
\* of blob A has sent the delete of A alone, the blob is gone, and the
\* handler is about to delete the record
C23_Witness ==
  /\ pc[1] = "delete_kv"
  /\ StoredImages("milo-1") = <<BadUrl, UrlA>>
  /\ s3[1].sent /\ s3[1].keys = <<KeyA>> /\ s3[1].errors = {}
  /\ KeyA \notin blobs

-----------------------------------------------------------------------------
(* C24 *)

\* the write endpoints
Writes == {"PUT /api/memorial/:slug", "DELETE /api/memorial/:slug"}

\* the last request of p was a write with a key that is sent and is not the
\* key of the record stored under its slug, and it has been answered
WrongKeyAnswered(p) ==
  /\ pc[p] = "idle"
  /\ req[p].method \in Writes
  /\ req[p].key # ""
  /\ Stored(req[p].slug)
  /\ Parse(kv[req[p].slug]).editKey # req[p].key

\* C24: an Update or a Delete with a key that is not the stored key of its
\* slug is answered the same, status and body, whether a record is stored
\* under the slug or not: when a caller whose write of a stored slug has
\* just been answered sends the same write with the same key to a slug that
\* holds no record, the answer is the one it has just had.
C24_ExistenceHidden ==
  [][\A p \in Lifecycle.procs :
       (/\ WrongKeyAnswered(p)
        /\ Arrives(p, req[p].method)
        /\ req'[p].key = req[p].key
        /\ ~Stored(req'[p].slug)
        /\ pc'[p] = "idle")
         => resp'[p] = resp[p]]_vars

-----------------------------------------------------------------------------
(* C25 *)

\* the slugs of the model that match /^[a-z0-9-]+$/: the others hold a space
\* or a percent sign
ValidShape(slug) == slug \in AllSlugs \cup {"ghost-99"}

\* C25: a Create whose slug holds a character other than a lowercase ASCII
\* letter, a digit or a hyphen is rejected and stores nothing, so the slug
\* of every stored record consists of those characters only.
C25_SlugShape ==
  /\ \A key \in KvKeys : Stored(key) => ValidShape(Parse(kv[key]).slug)
  /\ \A p \in Fields.procs :
        (Answered(p, "POST /api/memorial", 201) /\ Stored(req[p].slug))
          => ValidShape(req[p].slug)

-----------------------------------------------------------------------------
(* C26 *)

\* a JSON body that can be destructured (any JSON value but null) and
\* lacks filename or contentType, or holds an empty one
LacksField(body) ==
  body \notin {Malformed, Null}
    /\ (FalsyStr(body, "filename") \/ FalsyStr(body, "contentType"))

\* a body from which the handler gets no filename or no contentType: one
\* that lacks a field, or null, which has no fields
NoFileOrType(body) == body = Null \/ LacksField(body)

\* C26 as the spec states it: a request for an upload URL that lacks
\* filename or contentType is answered 400.
C26_AsStated ==
  [][\A p \in Batch.procs, body \in Batch.uploadBodies, uuid \in {"u1", "u2"} :
       (Arrives(p, "POST /api/upload-url") /\ UploadUrl(p, body, uuid) /\ NoFileOrType(body))
         => resp'[p].status = 400]_vars

\* C26: no request for an upload URL, whatever its answer, changes the
\* record store or the object store or sends a delete to the object store.
\* When the bucket name is not configured every request is answered 500.
\* When it is, a body that is not JSON and the body null are answered 500,
\* every other JSON body that lacks filename or contentType (or holds an
\* empty one) is answered 400, and a complete body is answered 200 with a
\* URL for an object that is not written.
C26_UploadUrlNoEffect ==
  [][\A p \in Batch.procs, body \in Batch.uploadBodies, uuid \in {"u1", "u2"} :
       (Arrives(p, "POST /api/upload-url") /\ UploadUrl(p, body, uuid))
         => /\ kv' = kv /\ blobs' = blobs
            /\ s3'[p] = NoCmd /\ pc'[p] = "idle"
            /\ resp'[p].status =
                 IF ~env.bucket \/ body \in {Malformed, Null} THEN 500
                 ELSE IF LacksField(body) THEN 400
                 ELSE 200
            /\ resp'[p].status = 200 => resp'[p].json.uploadUrl.put \notin blobs']_vars

\* a request without a field has been answered 400 while a record and a
\* blob are stored
C26_Witness ==
  /\ Answered(1, "POST /api/upload-url", 400)
  /\ Stored("milo-1") /\ KeyA \in blobs

-----------------------------------------------------------------------------
(* C27 *)

\* C27: an Update whose payload does not send images, or sends images =
\* null, deletes no blob: no step of it changes the object store, and it
\* stores the images list that was stored.
C27_NoImagesNoDelete ==
  /\ [][\A p \in Images.procs :
          (UpdateS3(p) /\ ~SendsImages(loc[p].updateData)) => blobs' = blobs]_vars
  /\ [][\A p \in Images.procs :
          (UpdatePut(p) /\ ~SendsImages(loc[p].updateData))
            => /\ StoredImages(req[p].slug)' = StoredImages(req[p].slug)
               /\ resp'[p].status = 200]_vars

-----------------------------------------------------------------------------
(* C28 *)

\* the object keys of the images of the records stored under other slugs
\* than slug
KeysOfOthers(slug) ==
  UNION {KeysOf(Range(StoredImages(other))) :
           other \in {k \in KvKeys \ {slug} : Stored(k)}}

\* C28: the delete that an Update or a Delete sends to the object store
\* removes no blob that a record stored under another slug lists: such a
\* blob is in the bucket after the step if it was before.
C28_SharedBlobKept ==
  [][\A p \in Lifecycle.procs :
       (UpdateS3(p) \/ DeleteS3(p))
         => blobs \cap KeysOfOthers(req[p].slug) \subseteq blobs']_vars

-----------------------------------------------------------------------------
(* C29 *)

\* Two requests at a time, on one memorial with two images: two Updates,
\* each of which keeps one of the two images.
Racing ==
  [procs |-> Procs,
   slugs |-> {"milo-1"},
   createBodies |-> CreateBodies({"milo-1"}, {"k1"}, {"images" :> Arr(<<UrlA, UrlB>>)}, {<<>>}),
   updateBodies |-> UpdateBodies({<<>>}, {"images" :> Arr(<<UrlA>>), "images" :> Arr(<<UrlB>>)},
                                 {<<>>}),
   blobKeys |-> {KeyA, KeyB}]

NextRacing ==
  \/ \E p \in Racing.procs, body \in Racing.createBodies :
        CreateStart(p, body)
  \/ \E p \in Racing.procs : CreatePut(p)
  \/ \E p \in Racing.procs, slug \in Racing.slugs, editKey \in Headers,
        body \in Racing.updateBodies : UpdateStart(p, slug, editKey, body)
  \/ \E p \in Racing.procs : UpdateS3(p)
  \/ \E p \in Racing.procs : UpdatePut(p)
  \/ \E key \in Racing.blobKeys : ClientPut(key)

SpecRacing == Init /\ [][NextRacing]_vars

\* C29: two Updates of one slug with the right key that run concurrently do
\* not leave a record that lists an image whose blob one of them deleted.
\* While the Updates of p and q have both read the record and neither has
\* written it, and q has only its write left, the delete of p removes from
\* the bucket no blob of an image of the record q is about to store: that
\* record is the one finally stored when q writes after p.
C29_NoDanglingAfterRace ==
  [][\A p, q \in Racing.procs :
       (/\ p # q
        /\ UpdateS3(p) /\ pc'[p] = "update_put"
        /\ pc[q] = "update_put"
        /\ req[q].slug = req[p].slug)
         => LET updatedMemorial == UpdatedMemorial(loc[q].storedMemorial, loc[q].updateData)
            IN  KeysOf(Range(OriginalImageUrls(updatedMemorial))) \cap (blobs \ blobs') = {}]_vars

-----------------------------------------------------------------------------
(* C30 *)

\* C30: every record of the record store is stored under the key that is
\* its own slug field, and every step that writes a record writes it under
\* the slug the written record holds.
C30_KeyIsSlug ==
  /\ [](\A key \in KvKeys : Stored(key) => Parse(kv[key]).slug = key)
  /\ [][\A key \in KvKeys :
          (kv'[key] # kv[key] /\ kv'[key] # KvNull) => Parse(kv'[key]).slug = key]_vars

\* the record of "milo-1" has been updated and the record of "my pet" is
\* stored: each is under the key that is its slug
C30_Witness ==
  /\ Answered(1, "PUT /api/memorial/:slug", 200)
  /\ Stored("milo-1") /\ Parse(kv["milo-1"]).petName = "Rex"
  /\ Parse(kv["milo-1"]).slug = "milo-1"
  /\ Stored(SpacedSlug) /\ Parse(kv[SpacedSlug]).slug = SpacedSlug

=============================================================================
